---- MODULE Spec2Model ----
(***************************************************************************)
(* Model of the JSONC scanner (src/src/scanner.rs).                         *)
(*                                                                         *)
(* The scanner owns a character buffer `chars` and a cursor (pos,           *)
(* line_number, token_start).  Its single public operation is move_next,    *)
(* which returns Ok(Some(token)), Ok(None) or Err(TokenError).  Positions   *)
(* are 0-based as in the source; chars is a TLA+ sequence, so the           *)
(* character at position p is chars[p + 1].  A character is a one-character *)
(* string.                                                                  *)
(***************************************************************************)
EXTENDS Naturals, Integers, Sequences, FiniteSets, TLC

VARIABLES chars, pos, line_number, token_start, result, previous, calls,
          scanned_tokens, scanned_ranges

vars ==
    <<chars, pos, line_number, token_start, result, previous, calls,
      scanned_tokens, scanned_ranges>>

-----------------------------------------------------------------------------
(* Bounds of the input space.                                               *)

MaxStrLen == 5
MaxHexTail == 5
MaxNumLen == 5
MaxExpTail == 3
MaxCommentLen == 5
MaxWordTail == 2
MaxMixLen == 4
MaxBlockTail == 5
MaxJsonLen == 4

Seqs(A, n) == UNION {[1..k -> A] : k \in 0..n}

-----------------------------------------------------------------------------
(* Character classes.                                                       *)

\* Option::None of current_char / peek_char / move_next_char.
None == "None"

OneNine == {"1", "2", "3", "4", "5", "6", "7", "8", "9"}

HexLetters == {"a", "b", "c", "d", "e", "f", "A", "B", "C", "D", "E", "F"}

Letters ==
    {"a", "b", "c", "d", "e", "f", "g", "h", "i", "j", "k", "l", "m",
     "n", "o", "p", "q", "r", "s", "t", "u", "v", "w", "x", "y", "z",
     "A", "B", "C", "D", "E", "F", "G", "H", "I", "J", "K", "L", "M",
     "N", "O", "P", "Q", "R", "S", "T", "U", "V", "W", "X", "Y", "Z"}

\* char::is_whitespace on the characters of the model's alphabets.
is_whitespace(c) == c \in {" ", "\t", "\n", "\r", "\f"}

\* char::is_alphanumeric on the characters of the model's alphabets.
is_alphanumeric(c) == c \in Letters \cup OneNine \cup {"0"}

\* Mutant: b is missing from the accepted escape characters.
SimpleEscapes_without_b == {"\"", "\\", "/", "f", "n", "r", "t"}

\* The escape characters accepted after a backslash, other than u.
SimpleEscapes == {"\"", "\\", "/", "b", "f", "n", "r", "t"}

\* The number of hex digits required after backslash-u.
HexDigitCount == 4

-----------------------------------------------------------------------------
(* Cursor primitives.  A cursor is a record [pos, line_number].             *)

current_char(p) == IF p < Len(chars) THEN chars[p + 1] ELSE None

peek_char(p) == IF p + 1 < Len(chars) THEN chars[p + 2] ELSE None

move_next_char(s) ==
    [pos |-> s.pos + 1,
     line_number |-> IF current_char(s.pos + 1) = "\n"
                     THEN s.line_number + 1
                     ELSE s.line_number]

is_zero(p) == current_char(p) = "0"

is_one_nine(p) == current_char(p) \in OneNine

is_digit(p) == is_one_nine(p) \/ is_zero(p)

\* Mutant: any letter or digit counts as a hex digit.
is_hex_alphanumeric(p) == is_alphanumeric(current_char(p))

is_hex(p) == is_digit(p) \/ current_char(p) \in HexLetters

is_negative_sign(p) == current_char(p) = "-"

is_decimal_point(p) == current_char(p) = "."

\* Mutant: a \r ends the line whatever follows it.
is_new_line_any_cr(p) == current_char(p) \in {"\n", "\r"}

is_new_line(p) ==
    CASE current_char(p) = "\n" -> TRUE
      [] current_char(p) = "\r" -> peek_char(p) = "\n"
      [] OTHER -> FALSE

-----------------------------------------------------------------------------
(* Tokens and results.                                                      *)

Token(type, text, value) == [type |-> type, text |-> text, value |-> value]

NoToken == Token("None", <<>>, FALSE)

\* What move_next returns, with the cursor it leaves behind.
Ok(s, token) ==
    [pos |-> s.pos, line_number |-> s.line_number,
     result |-> [kind |-> "Some", token |-> token, pos |-> 0, message |-> ""]]

OkNone(s) ==
    [pos |-> s.pos, line_number |-> s.line_number,
     result |-> [kind |-> "None", token |-> NoToken, pos |-> 0, message |-> ""]]

\* TokenError::new(pos, message)
Err(s, errpos, message) ==
    [pos |-> s.pos, line_number |-> s.line_number,
     result |-> [kind |-> "Err", token |-> NoToken, pos |-> errpos,
                 message |-> message]]

-----------------------------------------------------------------------------
(* skip_whitespace: advance while the current character is whitespace.      *)

\* Mutant: the loop also steps when the input is exhausted.
RECURSIVE skip_whitespace_past_end(_)
skip_whitespace_past_end(s) ==
    IF current_char(s.pos) = None
    THEN move_next_char(s)
    ELSE IF is_whitespace(current_char(s.pos))
    THEN skip_whitespace_past_end(move_next_char(s))
    ELSE s

RECURSIVE skip_whitespace(_)
skip_whitespace(s) ==
    IF current_char(s.pos) # None /\ is_whitespace(current_char(s.pos))
    THEN skip_whitespace(move_next_char(s))
    ELSE s

-----------------------------------------------------------------------------
(* parse_string.                                                            *)

\* The `for _ in 0..4` loop after backslash-u, from iteration k on: each
\* iteration moves, pushes the character if there is one, and then requires
\* the current character to be a hex digit.
\* Mutant: the four hex digits are consumed but not pushed to the text.
RECURSIVE hex_digits_dropped(_, _, _)
hex_digits_dropped(s, text, k) ==
    IF k = HexDigitCount
    THEN [s |-> s, text |-> text, ok |-> TRUE]
    ELSE LET s1 == move_next_char(s)
         IN  IF ~is_hex(s1.pos)
             THEN [s |-> s1, text |-> text, ok |-> FALSE]
             ELSE hex_digits_dropped(s1, text, k + 1)

\* Mutant: the loop moves four times and the digits are checked afterwards.
RECURSIVE hex_digits_checked_late(_, _, _)
hex_digits_checked_late(s, text, k) ==
    IF k = HexDigitCount
    THEN [s |-> s, text |-> text, ok |-> TRUE]
    ELSE LET s1 == move_next_char(s)
             c == current_char(s1.pos)
             text1 == IF c # None THEN Append(text, c) ELSE text
             r == hex_digits_checked_late(s1, text1, k + 1)
         IN  [s |-> r.s, text |-> r.text, ok |-> r.ok /\ is_hex(s1.pos)]

RECURSIVE hex_digits(_, _, _)
hex_digits(s, text, k) ==
    IF k = HexDigitCount
    THEN [s |-> s, text |-> text, ok |-> TRUE]
    ELSE LET s1 == move_next_char(s)
             c == current_char(s1.pos)
             text1 == IF c # None THEN Append(text, c) ELSE text
         IN  IF ~is_hex(s1.pos)
             THEN [s |-> s1, text |-> text1, ok |-> FALSE]
             ELSE hex_digits(s1, text1, k + 1)

\* The token parse_string returns when it finds the closing quote.
string_token(s, text) == Ok(s, Token("String", text, FALSE))

\* Mutant: the error is reported at the u.
hex_start_pos_at_u(s) == s.pos

\* The position reported by "Expected four hex digits.": self.pos - 1, with
\* the cursor on the u.
hex_start_pos(s) == s.pos - 1

\* The `while let Some(current_char) = self.move_next_char()` loop.
RECURSIVE string_loop(_, _, _, _)
string_loop(s, start_pos, text, last_was_backslash) ==
    LET s1 == move_next_char(s)
        c == current_char(s1.pos)
    IN  IF c = None
        THEN Err(s1, start_pos, "Unterminated string literal")
        ELSE IF last_was_backslash
        THEN IF c \in SimpleEscapes
             THEN string_loop(s1, start_pos, Append(text, c), FALSE)
             ELSE IF c = "u"
             THEN LET h == hex_digits(s1, Append(text, c), 0)
                  IN  IF h.ok
                      THEN string_loop(h.s, start_pos, h.text, FALSE)
                      ELSE Err(h.s, hex_start_pos(s1),
                               "Expected four hex digits.")
             ELSE Err(s1, start_pos, "Invalid escape.")
        ELSE IF c = "\""
        THEN string_token(s1, text)
        ELSE string_loop(s1, start_pos, Append(text, c), c = "\\")

\* Mutant: start_pos is taken after the opening quote is passed.
parse_string_late_start(s) == string_loop(s, s.pos + 1, <<>>, FALSE)

parse_string(s) == string_loop(s, s.pos, <<>>, FALSE)

-----------------------------------------------------------------------------
(* parse_number.                                                            *)

\* `while self.is_digit() { text.push(current); self.move_next_char(); }`
RECURSIVE digits(_, _)
digits(s, text) ==
    IF is_digit(s.pos)
    THEN digits(move_next_char(s), Append(text, current_char(s.pos)))
    ELSE [s |-> s, text |-> text]

number_token(s, text) == Ok(s, Token("Number", text, FALSE))

\* The position the malformed-number errors report: self.pos.
number_error_pos(s) == s.pos

\* Mutant: the sign of the exponent is optional, as in standard JSON.
parse_exponent_optional_sign(s, text) ==
    IF current_char(s.pos) \in {"e", "E"}
    THEN LET text1 == Append(text, current_char(s.pos))
             s1 == move_next_char(s)
             signed == current_char(s1.pos) \in {"-", "+"}
             text2 == IF signed THEN Append(text1, current_char(s1.pos))
                      ELSE text1
             s2 == IF signed THEN move_next_char(s1) ELSE s1
         IN  IF ~is_digit(s2.pos)
             THEN Err(s2, number_error_pos(s2), "Expected a digit.")
             ELSE LET d == digits(s2, text2)
                  IN  number_token(d.s, d.text)
    ELSE number_token(s, text)

\* Mutant: the digit after the sign of the exponent is not required.
parse_exponent_no_digit(s, text) ==
    IF current_char(s.pos) \in {"e", "E"}
    THEN LET text1 == Append(text, current_char(s.pos))
             s1 == move_next_char(s)
         IN  IF current_char(s1.pos) \in {"-", "+"}
             THEN LET d == digits(move_next_char(s1),
                                  Append(text1, current_char(s1.pos)))
                  IN  number_token(d.s, d.text)
             ELSE Err(s1, number_error_pos(s1),
                      "Expected plus or minus symbol in number literal.")
    ELSE number_token(s, text)

\* The exponent part: `match self.current_char()` on e / E.
parse_exponent(s, text) ==
    IF current_char(s.pos) \in {"e", "E"}
    THEN LET text1 == Append(text, current_char(s.pos))
             s1 == move_next_char(s)
         IN  IF current_char(s1.pos) \in {"-", "+"}
             THEN LET text2 == Append(text1, current_char(s1.pos))
                      s2 == move_next_char(s1)
                  IN  IF ~is_digit(s2.pos)
                      THEN Err(s2, number_error_pos(s2), "Expected a digit.")
                      ELSE LET d == digits(s2, text2)
                           IN  number_token(d.s, d.text)
             ELSE Err(s1, number_error_pos(s1),
                      "Expected plus or minus symbol in number literal.")
    ELSE number_token(s, text)

\* Mutant: the digit after the decimal point is not required.
parse_fraction_no_digit(s, text) ==
    IF is_decimal_point(s.pos)
    THEN LET d == digits(move_next_char(s), Append(text, "."))
         IN  parse_exponent(d.s, d.text)
    ELSE parse_exponent(s, text)

\* The fraction part: `if self.is_decimal_point()`.
parse_fraction(s, text) ==
    IF is_decimal_point(s.pos)
    THEN LET s1 == move_next_char(s)
         IN  IF ~is_digit(s1.pos)
             THEN Err(s1, number_error_pos(s1), "Expected a digit.")
             ELSE LET d == digits(s1, Append(text, "."))
                  IN  parse_exponent(d.s, d.text)
    ELSE parse_exponent(s, text)

parse_number(s) ==
    LET neg == is_negative_sign(s.pos)
        s0 == IF neg THEN move_next_char(s) ELSE s
        text0 == IF neg THEN <<"-">> ELSE <<>>
    IN  IF is_zero(s0.pos)
        THEN parse_fraction(move_next_char(s0), Append(text0, "0"))
        ELSE IF is_one_nine(s0.pos)
        THEN LET d == digits(move_next_char(s0),
                             Append(text0, current_char(s0.pos)))
             IN  parse_fraction(d.s, d.text)
        ELSE Err(s0, number_error_pos(s0),
                 "Expected a digit to follow a negative sign.")

-----------------------------------------------------------------------------
(* Comments.                                                                *)

\* assert_then_move_char: the assertion is compiled only in debug builds and
\* holds wherever the scanner calls it; the effect is move_next_char.
assert_then_move_char(s) == move_next_char(s)

RECURSIVE comment_line_loop(_, _)
comment_line_loop(s, text) ==
    LET s1 == move_next_char(s)
        c == current_char(s1.pos)
    IN  IF c = None \/ is_new_line(s1.pos)
        THEN Ok(s1, Token("CommentLine", text, FALSE))
        ELSE comment_line_loop(s1, Append(text, c))

parse_comment_line(s) == comment_line_loop(assert_then_move_char(s), <<>>)

\* `current_char == '*' && self.peek_char() == Some('/')`
is_block_end(p) == current_char(p) = "*" /\ peek_char(p) = "/"

RECURSIVE comment_block_loop(_, _, _)
comment_block_loop(s, start, text) ==
    LET s1 == move_next_char(s)
        c == current_char(s1.pos)
    IN  IF c = None
        THEN Err(s1, start, "Unterminated comment block.")
        ELSE IF is_block_end(s1.pos)
        THEN Ok(assert_then_move_char(assert_then_move_char(s1)),
                Token("CommentBlock", text, FALSE))
        ELSE comment_block_loop(s1, start, Append(text, c))

\* Mutant: the loop starts on the opening slash, so that the star of the
\* opener is looked at as a possible closer.
parse_comment_block_reuse_star(s) == comment_block_loop(s, s.pos, <<>>)

parse_comment_block(s) ==
    comment_block_loop(assert_then_move_char(s), s.pos, <<>>)

-----------------------------------------------------------------------------
(* Keywords.                                                                *)

\* Mutant: the character after the word is not looked at.
word_boundary_any(next_char) == TRUE

\* Mutant: try_move_word reports a match and leaves the cursor where it was.
try_move_word_unmoved(s, text) ==
    LET n == Len(text)
        matches == \A k \in 1..n : current_char(s.pos + k - 1) = text[k]
    IN  [ok |-> matches /\ (current_char(s.pos + n) = None
                              \/ ~is_alphanumeric(current_char(s.pos + n))),
         s |-> s]

\* May the character after a matched word follow a keyword?
word_boundary(next_char) == next_char = None \/ ~is_alphanumeric(next_char)

\* try_move_word(text): [ok, s].  On success the cursor jumps to the end of
\* the word by assigning pos; line_number is not touched.
try_move_word(s, text) ==
    LET n == Len(text)
        matches == \A k \in 1..n : current_char(s.pos + k - 1) = text[k]
    IN  IF matches /\ word_boundary(current_char(s.pos + n))
        THEN [ok |-> TRUE, s |-> [s EXCEPT !.pos = s.pos + n]]
        ELSE [ok |-> FALSE, s |-> s]

-----------------------------------------------------------------------------
(* move_next.                                                               *)

\* Mutant: the arms of } and ] return each other's token.
Structural_swapped ==
    [c \in {"{", "}", "[", "]", ",", ":"} |->
        CASE c = "{" -> "OpenBrace"
          [] c = "}" -> "CloseBracket"
          [] c = "[" -> "OpenBracket"
          [] c = "]" -> "CloseBrace"
          [] c = "," -> "Comma"
          [] c = ":" -> "Colon"]

Structural ==
    [c \in {"{", "}", "[", "]", ",", ":"} |->
        CASE c = "{" -> "OpenBrace"
          [] c = "}" -> "CloseBrace"
          [] c = "[" -> "OpenBracket"
          [] c = "]" -> "CloseBracket"
          [] c = "," -> "Comma"
          [] c = ":" -> "Colon"]

\* The `_ =>` arm of the dispatch: number, keyword or "Unexpected token.".
parse_word(s, start) ==
    LET t == try_move_word(s, <<"t", "r", "u", "e">>)
        f == try_move_word(s, <<"f", "a", "l", "s", "e">>)
        n == try_move_word(s, <<"n", "u", "l", "l">>)
    IN  IF current_char(s.pos) = "-" \/ is_digit(s.pos)
        THEN parse_number(s)
        ELSE IF t.ok THEN Ok(t.s, Token("Boolean", <<>>, TRUE))
        ELSE IF f.ok THEN Ok(f.s, Token("Boolean", <<>>, FALSE))
        ELSE IF n.ok THEN Ok(n.s, Token("Null", <<>>, FALSE))
        ELSE Err(s, start, "Unexpected token.")

\* Mutant: the slash is consumed before the error is returned.
parse_slash_consumed(s, start) ==
    CASE peek_char(s.pos) = "/" -> parse_comment_line(s)
      [] peek_char(s.pos) = "*" -> parse_comment_block(s)
      [] OTHER -> Err(move_next_char(s), start, "Unexpected token.")

\* The `'/' =>` arm of the dispatch.
parse_slash(s, start) ==
    CASE peek_char(s.pos) = "/" -> parse_comment_line(s)
      [] peek_char(s.pos) = "*" -> parse_comment_block(s)
      [] OTHER -> Err(s, start, "Unexpected token.")

\* The state after whitespace is skipped; token_start is set to its pos.
\* [pos, line_number, result] is the cursor and the value returned.
move_next(s) ==
    LET s1 == skip_whitespace(s)
        c == current_char(s1.pos)
    IN  IF c = None THEN OkNone(s1)
        ELSE IF c \in DOMAIN Structural
        THEN Ok(move_next_char(s1), Token(Structural[c], <<>>, FALSE))
        ELSE IF c = "\"" THEN parse_string(s1)
        ELSE IF c = "/" THEN parse_slash(s1, s1.pos)
        ELSE parse_word(s1, s1.pos)

-----------------------------------------------------------------------------
(* Inputs.                                                                  *)

StrAlphabet == {"\"", "\\", "u", "b", "0", "x", ","}
HexAlphabet == {"\"", "\\", "0", "b", "x"}
NumAlphabet == {"-", "0", "1", ".", "e", "+", ","}
ExpAlphabet == {"E", "e", "-", "+", "7", "x"}
CommentAlphabet == {"/", "*", "\n", "\r", "a", ","}
WordTailAlphabet == {"x", "1", "_", ",", "\n", " "}
MixAlphabet == {" ", "\n", ",", "{", "\"", "1", "/"}
BlockAlphabet == {"/", "*", "\n", "a", ","}
JsonAlphabet == {"[", "]", "{", "}", ",", ":", "1", "\""}

Keywords ==
    {<<"t", "r", "u", "e">>, <<"f", "a", "l", "s", "e">>,
     <<"n", "u", "l", "l">>}

\* A keyword or a proper prefix of one, then any short tail.
WordHeads == UNION {{SubSeq(w, 1, k) : k \in 1..Len(w)} : w \in Keywords}

StrInputs == Seqs(StrAlphabet, MaxStrLen)
HexInputs == {<<"\"", "\\", "u">> \o t : t \in Seqs(HexAlphabet, MaxHexTail)}
NumInputs == Seqs(NumAlphabet, MaxNumLen)
ExpInputs ==
    {h \o t : h \in {<<"1">>, <<"0", ".", "5">>},
              t \in Seqs(ExpAlphabet, MaxExpTail)}
CommentInputs == Seqs(CommentAlphabet, MaxCommentLen)
WordInputs ==
    {p \o h \o t : p \in {<<>>, <<"\n">>}, h \in WordHeads,
                   t \in Seqs(WordTailAlphabet, MaxWordTail)}

MixInputs == Seqs(MixAlphabet, MaxMixLen)

\* An opened block comment, or a whole one, then any short tail.
BlockInputs ==
    {h \o t : h \in {<<"/", "*">>, <<"/", "*", "*", "/">>},
              t \in Seqs(BlockAlphabet, MaxBlockTail)}

JsonInputs == Seqs(JsonAlphabet, MaxJsonLen)

Inputs ==
    StrInputs \cup HexInputs \cup NumInputs \cup ExpInputs
        \cup CommentInputs \cup WordInputs \cup MixInputs \cup BlockInputs
        \cup JsonInputs

-----------------------------------------------------------------------------
(* The state machine.                                                       *)

Start == [kind |-> "Start", token |-> NoToken, pos |-> 0, message |-> ""]

\* Scanner::new(text), before the first call of move_next.
Init ==
    /\ chars \in Inputs
    /\ pos = 0
    /\ token_start = 0
    /\ line_number = 0
    /\ result = Start
    /\ previous = Start
    /\ calls = 0
    /\ scanned_tokens = <<>>
    /\ scanned_ranges = <<>>

\* Has the caller's loop (assert_has_tokens) ended: Ok(None) or Err seen?
Stopped == result.kind \in {"None", "Err"}

\* The start and end offsets of a token (Range, without its lines).
Range(start, end) == [start |-> start, end |-> end]

\* One call of move_next.  calls and scanned_tokens are the caller's loop of
\* assert_has_tokens: they count the calls and collect the tokens up to the
\* first Ok(None) or Err; scanned_ranges holds, for each collected token,
\* the token start and the cursor the call left.  previous is what the call
\* before this one returned.
MoveNext ==
    LET s == [pos |-> pos, line_number |-> line_number]
        r == move_next(s)
    IN  /\ pos' = r.pos
        /\ line_number' = r.line_number
        /\ token_start' = skip_whitespace(s).pos
        /\ result' = r.result
        /\ previous' = result
        /\ calls' = IF Stopped THEN calls ELSE calls + 1
        /\ scanned_tokens' =
              IF ~Stopped /\ r.result.kind = "Some"
              THEN Append(scanned_tokens, r.result.token)
              ELSE scanned_tokens
        /\ scanned_ranges' =
              IF ~Stopped /\ r.result.kind = "Some"
              THEN Append(scanned_ranges,
                          Range(skip_whitespace(s).pos, r.pos))
              ELSE scanned_ranges
        /\ UNCHANGED chars

Next == MoveNext

Spec == Init /\ [][Next]_vars

-----------------------------------------------------------------------------
(* Vocabulary of the properties.                                            *)

\* The character at 0-based position p (None past the end).
CharAt(p) == IF p >= 0 /\ p < Len(chars) THEN chars[p + 1] ELSE None

\* The input characters at 0-based positions a .. b-1.
Slice(a, b) ==
    SubSeq(chars, a + 1, IF b <= Len(chars) THEN b ELSE Len(chars))

Returned == result.kind # "Start"
ReturnedToken(type) == result.kind = "Some" /\ result.token.type = type
ReturnedError(message) == result.kind = "Err" /\ result.message = message

\* The length of a token's source text: its payload with its delimiters.
SpanLen(token) ==
    CASE token.type = "String" -> Len(token.text) + 2
      [] token.type = "Number" -> Len(token.text)
      [] token.type = "CommentLine" -> Len(token.text) + 2
      [] token.type = "CommentBlock" -> Len(token.text) + 4
      [] token.type = "Boolean" -> IF token.value THEN 4 ELSE 5
      [] token.type = "Null" -> 4
      [] OTHER -> 1

\* In the string opened at position s, is the character at position i
\* preceded by an unescaped backslash?
RECURSIVE Escaped(_, _)
Escaped(s, i) == i > s + 1 /\ CharAt(i - 1) = "\\" /\ ~Escaped(s, i - 1)

\* The positions of the quotes that can terminate the string opened at s.
ClosingQuotes(s) ==
    {i \in (s + 1)..(Len(chars) - 1) : CharAt(i) = "\"" /\ ~Escaped(s, i)}

\* The first of them.
ClosingQuote(s) ==
    CHOOSE i \in ClosingQuotes(s) : \A j \in ClosingQuotes(s) : i <= j

-----------------------------------------------------------------------------
(* C1 *)

\* C1: whenever move_next returns Ok(Some(token)), pos is the index
\* immediately after the last character of the token's source text; for a
\* String token that is the index after the closing quote.
C1_PosAfterToken ==
    result.kind = "Some" => pos = token_start + SpanLen(result.token)

\* C1, second half: a string literal followed by a comma yields String and
\* then Comma.
C1_StringThenComma ==
    (/\ Len(scanned_tokens) >= 1
     /\ scanned_tokens[1].type = "String"
     /\ CharAt(0) = "\""
     /\ CharAt(Len(scanned_tokens[1].text) + 2) = ","
     /\ Len(scanned_tokens) >= 2)
        => scanned_tokens[2].type = "Comma"

-----------------------------------------------------------------------------
(* C2 *)

\* C2: a String token's text is exactly the input between the opening quote
\* and the terminating quote (the first quote not preceded by an unescaped
\* backslash), escape sequences kept verbatim; the scan stops on that quote.
C2_StringTextVerbatim ==
    ReturnedToken("String") =>
        /\ CharAt(token_start) = "\""
        /\ ClosingQuotes(token_start) # {}
        /\ pos = ClosingQuote(token_start)
        /\ result.token.text = Slice(token_start + 1, ClosingQuote(token_start))

\* A string whose text holds a backslash-u escape with its four hex digits
\* and an escaped quote or backslash.
C2_Witness ==
    /\ ReturnedToken("String")
    /\ Len(result.token.text) = 6
    /\ result.token.text[1] = "\\"
    /\ result.token.text[2] = "u"

\* A string whose text holds an escaped quote.
C2_WitnessEscapedQuote ==
    /\ ReturnedToken("String")
    /\ result.token.text = <<"\\", "\"">>

-----------------------------------------------------------------------------
(* C3 *)

\* C3: once move_next has returned Ok(None), every later call returns
\* Ok(None) and leaves pos, token_start and line_number unchanged.
C3_EndIsTerminal ==
    [][result.kind = "None" =>
          /\ result'.kind = "None"
          /\ pos' = pos
          /\ token_start' = token_start
          /\ line_number' = line_number]_vars

\* Ok(None) returned twice in a row, after at least one token.
C3_Witness ==
    /\ result.kind = "None"
    /\ previous.kind = "None"
    /\ Len(scanned_tokens) >= 1

-----------------------------------------------------------------------------
(* C4 *)

\* C4: no call of move_next decreases pos, every call that returns a token
\* strictly increases it, and so a caller that repeats move_next until
\* Ok(None) or Err makes at most len(input) + 1 calls.
C4_Progress ==
    /\ [][pos' >= pos /\ (result'.kind = "Some" => pos' > pos)]_vars
    /\ [](calls <= Len(chars) + 1)

\* The bound is met: every character is a token, and the last call of the
\* loop returns Ok(None).
C4_Witness ==
    /\ Len(chars) >= 3
    /\ calls = Len(chars) + 1
    /\ result.kind = "None"

-----------------------------------------------------------------------------
(* C5 *)

Digits == OneNine \cup {"0"}

IsDigits(t) == Len(t) >= 1 /\ \A k \in 1..Len(t) : t[k] \in Digits

\* int := '0' | [1-9] digit*
IsInt(t) == t = <<"0">> \/ (IsDigits(t) /\ t[1] \in OneNine)

\* frac := '.' digit+   (optional)
IsFrac(t) == t = <<>> \/ (Len(t) >= 2 /\ t[1] = "." /\ IsDigits(Tail(t)))

\* exp := ('e'|'E') ('+'|'-') digit+   (optional)
IsExp(t) ==
    \/ t = <<>>
    \/ /\ Len(t) >= 3
       /\ t[1] \in {"e", "E"}
       /\ t[2] \in {"+", "-"}
       /\ IsDigits(SubSeq(t, 3, Len(t)))

\* '-'? int frac?
IsIntFrac(t) ==
    LET u == IF Len(t) >= 1 /\ t[1] = "-" THEN Tail(t) ELSE t
    IN  \E i \in 1..Len(u) :
            IsInt(SubSeq(u, 1, i)) /\ IsFrac(SubSeq(u, i + 1, Len(u)))

\* number := '-'? int frac? exp?
IsNumber(t) ==
    \E j \in 1..Len(t) :
        IsIntFrac(SubSeq(t, 1, j)) /\ IsExp(SubSeq(t, j + 1, Len(t)))

\* C5: a Number token's text matches the number grammar and is exactly the
\* input from token_start up to the new pos.
C5_NumberText ==
    ReturnedToken("Number") =>
        /\ IsNumber(result.token.text)
        /\ result.token.text = Slice(token_start, pos)

\* A number with a fraction and an exponent.
C5_Witness ==
    /\ ReturnedToken("Number")
    /\ result.token.text = <<"0", ".", "5", "e", "+", "7">>

\* A number with a leading zero: only the single digit 0 is the token.
C5_WitnessLeadingZero ==
    /\ ReturnedToken("Number")
    /\ result.token.text = <<"0">>
    /\ CharAt(pos) = "1"

-----------------------------------------------------------------------------
(* C6 *)

\* The keyword at position s, if the input has one there.
KeywordsAt(s) == {w \in Keywords : Slice(s, s + Len(w)) = w}

KeywordToken(w) ==
    CASE w = <<"t", "r", "u", "e">> -> Token("Boolean", <<>>, TRUE)
      [] w = <<"f", "a", "l", "s", "e">> -> Token("Boolean", <<>>, FALSE)
      [] w = <<"n", "u", "l", "l">> -> Token("Null", <<>>, FALSE)

\* C6: true, false or null followed by an alphanumeric character is the
\* error "Unexpected token." and no token; followed by the end of input or
\* a character that is not alphanumeric it is Boolean(true), Boolean(false)
\* or Null, and pos is past the whole word.
C6_WholeWord ==
    Returned =>
        \A w \in Keywords :
            (token_start + Len(w) <= Len(chars)
                /\ Slice(token_start, token_start + Len(w)) = w) =>
            IF is_alphanumeric(CharAt(token_start + Len(w)))
            THEN /\ ReturnedError("Unexpected token.")
                 /\ pos = token_start
            ELSE /\ result.kind = "Some"
                 /\ result.token = KeywordToken(w)
                 /\ pos = token_start + Len(w)

\* A keyword followed by a letter is rejected.
C6_Witness ==
    /\ ReturnedError("Unexpected token.")
    /\ Slice(token_start, token_start + 4) = <<"n", "u", "l", "l">>
    /\ CharAt(token_start + 4) = "x"

\* A keyword followed by a character that is not alphanumeric is accepted.
C6_WitnessAccepted ==
    /\ result.kind = "Some"
    /\ result.token = Token("Boolean", <<>>, FALSE)
    /\ CharAt(pos) = "_"

-----------------------------------------------------------------------------
(* C7 *)

TokenStartErrors ==
    {"Unexpected token.", "Unterminated string literal", "Invalid escape.",
     "Unterminated comment block."}

NumberErrors ==
    {"Expected a digit to follow a negative sign.", "Expected a digit.",
     "Expected plus or minus symbol in number literal."}

\* C7 as stated: every error carries the offset at which the token being
\* scanned began, recorded before dispatch.
C7_ErrorPosIsTokenStart == result.kind = "Err" => result.pos = token_start

\* C7 as amended: an error's pos is token_start for "Unexpected token.",
\* "Unterminated string literal", "Invalid escape." and "Unterminated comment
\* block."; for the malformed-number errors it is the cursor position at
\* which the missing digit or sign was expected, after the start of the
\* number; for "Expected four hex digits." it is the offset of the backslash
\* of the escape, inside the string.
C7_ErrorPosByKind ==
    result.kind = "Err" =>
        /\ result.message \in
              TokenStartErrors \cup NumberErrors
                  \cup {"Expected four hex digits."}
        /\ result.message \in TokenStartErrors => result.pos = token_start
        /\ result.message \in NumberErrors =>
              /\ result.pos = pos
              /\ result.pos > token_start
        /\ result.message = "Expected four hex digits." =>
              /\ result.pos > token_start
              /\ result.pos < pos
              /\ CharAt(result.pos) = "\\"
              /\ CharAt(result.pos + 1) = "u"

\* A malformed number reported where the digit was expected.
C7_Witness ==
    /\ ReturnedError("Expected a digit.")
    /\ result.pos = token_start + 2

\* A malformed backslash-u escape reported at its backslash.
C7_WitnessHex ==
    /\ ReturnedError("Expected four hex digits.")
    /\ result.pos = token_start + 1
    /\ pos = token_start + 4

-----------------------------------------------------------------------------
(* C8 *)

HexChars == Digits \cup HexLetters

\* Every escape of the string opened at s is well formed, so that no escape
\* error stops the scan of the string.
EscapesWellFormed(s) ==
    \A i \in (s + 1)..(Len(chars) - 1) :
        Escaped(s, i) =>
            \/ CharAt(i) \in SimpleEscapes
            \/ /\ CharAt(i) = "u"
               /\ \A k \in 1..HexDigitCount : CharAt(i + k) \in HexChars

\* The positions at or after s + 2 where a closing */ starts, for the block
\* comment opened at s.
BlockEnds(s) ==
    {i \in (s + 2)..(Len(chars) - 2) : CharAt(i) = "*" /\ CharAt(i + 1) = "/"}

\* C8: a string whose scan reaches the end of input without an unescaped
\* closing quote fails with "Unterminated string literal" at the offset of
\* its opening quote; a block comment without a closing */ fails with
\* "Unterminated comment block." at the offset of its opening slash; neither
\* error reports the end-of-input offset.  (A string stopped by a malformed
\* escape fails with that escape's error instead.)
C8_UnterminatedReportsStart ==
    /\ ReturnedError("Unterminated string literal") =>
          /\ result.pos = token_start
          /\ CharAt(result.pos) = "\""
          /\ result.pos < Len(chars)
          /\ pos = Len(chars)
    /\ ReturnedError("Unterminated comment block.") =>
          /\ result.pos = token_start
          /\ CharAt(result.pos) = "/"
          /\ result.pos < Len(chars)
          /\ pos = Len(chars)
    /\ (/\ Returned
        /\ CharAt(token_start) = "\""
        /\ ClosingQuotes(token_start) = {}
        /\ EscapesWellFormed(token_start))
          => (ReturnedError("Unterminated string literal")
                /\ result.pos = token_start)
    /\ (/\ Returned
        /\ CharAt(token_start) = "/"
        /\ CharAt(token_start + 1) = "*"
        /\ BlockEnds(token_start) = {})
          => (ReturnedError("Unterminated comment block.")
                /\ result.pos = token_start)

\* An unterminated string that starts after the beginning of the input and
\* ends in an escaped quote.
C8_Witness ==
    /\ ReturnedError("Unterminated string literal")
    /\ token_start > 0
    /\ pos >= token_start + 3
    /\ CharAt(pos - 1) = "\""

\* An unterminated block comment that starts after the beginning of the
\* input: the star of the opener is followed by a slash.
C8_WitnessComment ==
    /\ ReturnedError("Unterminated comment block.")
    /\ token_start > 0
    /\ CharAt(token_start + 2) = "/"

-----------------------------------------------------------------------------
(* C9 *)

\* C9: a number whose integer/fraction part is followed by e or E and then
\* by anything other than + or - is the error "Expected plus or minus symbol
\* in number literal."; with a sign and a digit it is a Number whose text is
\* the input text exactly.
C9_ExponentNeedsSign ==
    Returned =>
        \A j \in (token_start + 1)..(Len(chars) - 1) :
            (IsIntFrac(Slice(token_start, j)) /\ CharAt(j) \in {"e", "E"}) =>
                IF CharAt(j + 1) \notin {"+", "-"}
                THEN ReturnedError(
                        "Expected plus or minus symbol in number literal.")
                ELSE CharAt(j + 2) \in Digits =>
                        /\ ReturnedToken("Number")
                        /\ pos >= j + 3
                        /\ CharAt(pos) \notin Digits
                        /\ IsDigits(Slice(j + 2, pos))
                        /\ result.token.text = Slice(token_start, pos)

\* An exponent marker followed directly by a digit is rejected.
C9_Witness ==
    /\ ReturnedError("Expected plus or minus symbol in number literal.")
    /\ CharAt(pos - 1) \in {"e", "E"}
    /\ CharAt(pos) = "7"

\* An exponent marker at the end of the input is rejected.
C9_WitnessEnd ==
    /\ ReturnedError("Expected plus or minus symbol in number literal.")
    /\ pos = Len(chars)

\* A signed exponent is accepted.
C9_WitnessSigned ==
    /\ ReturnedToken("Number")
    /\ result.token.text = <<"1", "E", "-", "7">>

-----------------------------------------------------------------------------
(* C10 *)

\* Is position i the end of the line: the end of input, a \n, or a \r
\* immediately followed by \n?
IsLineEnd(i) ==
    \/ i >= Len(chars)
    \/ CharAt(i) = "\n"
    \/ (CharAt(i) = "\r" /\ CharAt(i + 1) = "\n")

\* The first line end at or after position a.
LineEnd(a) ==
    CHOOSE i \in a..Len(chars) :
        IsLineEnd(i) /\ \A j \in a..(i - 1) : ~IsLineEnd(j)

\* C10: at // move_next returns CommentLine(text), never an error; text is
\* exactly the characters after the // up to, not including, the first line
\* terminator or the end of input, and the cursor stops there.
C10_CommentLine ==
    (Returned /\ CharAt(token_start) = "/" /\ CharAt(token_start + 1) = "/")
        => /\ ReturnedToken("CommentLine")
           /\ result.token.text = Slice(token_start + 2, LineEnd(token_start + 2))
           /\ pos = LineEnd(token_start + 2)

\* A comment ended by \r\n, with text.
C10_Witness ==
    /\ ReturnedToken("CommentLine")
    /\ result.token.text = <<"a">>
    /\ CharAt(pos) = "\r"
    /\ CharAt(pos + 1) = "\n"

\* A \r that no \n follows is part of the text.
C10_WitnessLoneCR ==
    /\ ReturnedToken("CommentLine")
    /\ result.token.text = <<"\r", "a">>

\* An empty comment.
C10_WitnessEmpty ==
    /\ ReturnedToken("CommentLine")
    /\ result.token.text = <<>>
    /\ pos = Len(chars)

-----------------------------------------------------------------------------
(* C11 *)

\* The first position at or after s + 2 where a closing */ starts.
BlockEnd(s) == CHOOSE i \in BlockEnds(s) : \A j \in BlockEnds(s) : i <= j

\* C11: at /* at index s, move_next returns CommentBlock(text) where text is
\* exactly the characters between s + 2 and the first */ that starts at or
\* after s + 2, newlines included, and pos is left immediately after that
\* */; the star of the opener is never the star of the closer, so that
\* without such a */ (as in /*/) the comment is unterminated.
C11_CommentBlock ==
    (Returned /\ CharAt(token_start) = "/" /\ CharAt(token_start + 1) = "*")
        => IF BlockEnds(token_start) # {}
           THEN /\ ReturnedToken("CommentBlock")
                /\ result.token.text =
                      Slice(token_start + 2, BlockEnd(token_start))
                /\ pos = BlockEnd(token_start) + 2
           ELSE ReturnedError("Unterminated comment block.")

\* A block comment with a newline in its text, scanned after another block
\* comment.
C11_Witness ==
    /\ ReturnedToken("CommentBlock")
    /\ token_start = 4
    /\ result.token.text = <<"\n">>
    /\ previous.kind = "Some"
    /\ previous.token.type = "CommentBlock"

\* A comma scanned right after a block comment.
C11_WitnessThenComma ==
    /\ ReturnedToken("Comma")
    /\ previous.kind = "Some"
    /\ previous.token = Token("CommentBlock", <<"a", "*">>, FALSE)

\* /*/ alone is unterminated.
C11_WitnessOpenerStar ==
    /\ ReturnedError("Unterminated comment block.")
    /\ chars = <<"/", "*", "/">>

-----------------------------------------------------------------------------
(* C12 *)

\* The grammar of the input, stated without the scanner.  LexemeEnd(i) is
\* the position after the lexeme that starts at position i, or -1 when no
\* lexeme starts there.
StringWellFormed(s, e) ==
    \A i \in (s + 1)..(e - 1) :
        Escaped(s, i) =>
            \/ CharAt(i) \in {"\"", "\\", "/", "b", "f", "n", "r", "t"}
            \/ /\ CharAt(i) = "u"
               /\ i + 4 < e
               /\ \A k \in 1..4 : CharAt(i + k) \in HexChars

NumberEnds(i) == {j \in (i + 1)..Len(chars) : IsNumber(Slice(i, j))}

LexemeEnd(i) ==
    LET c == CharAt(i)
        words == {w \in Keywords :
                     /\ i + Len(w) <= Len(chars)
                     /\ Slice(i, i + Len(w)) = w
                     /\ CharAt(i + Len(w)) \notin Letters \cup Digits}
    IN  CASE c \in {"{", "}", "[", "]", ",", ":"} -> i + 1
          [] c = "\"" ->
                IF ClosingQuotes(i) # {}
                      /\ StringWellFormed(i, ClosingQuote(i))
                THEN ClosingQuote(i) + 1
                ELSE -1
          [] c = "/" /\ CharAt(i + 1) = "/" -> LineEnd(i + 2)
          [] c = "/" /\ CharAt(i + 1) = "*" ->
                IF BlockEnds(i) # {} THEN BlockEnd(i) + 2 ELSE -1
          [] c = "-" \/ c \in Digits ->
                IF NumberEnds(i) # {}
                THEN CHOOSE j \in NumberEnds(i) : \A k \in NumberEnds(i) : k <= j
                ELSE -1
          [] words # {} -> i + Len(CHOOSE w \in words : TRUE)
          [] OTHER -> -1

LexemeType(i) ==
    LET c == CharAt(i)
    IN  CASE c \in {"{", "}", "[", "]", ",", ":"} -> c
          [] c = "\"" -> "String"
          [] c = "/" -> "Comment"
          [] OTHER -> "Scalar"

\* The lexeme types of the input from position i on, comments and
\* whitespace left out; "Invalid" where the input has no lexeme.
RECURSIVE LexemesFrom(_)
LexemesFrom(i) ==
    IF i >= Len(chars) THEN <<>>
    ELSE IF CharAt(i) \in {" ", "\t", "\n", "\r", "\f"} THEN LexemesFrom(i + 1)
    ELSE IF LexemeEnd(i) = -1 THEN <<"Invalid">>
    ELSE IF LexemeType(i) = "Comment" THEN LexemesFrom(LexemeEnd(i))
    ELSE <<LexemeType(i)>> \o LexemesFrom(LexemeEnd(i))

\* The JSON value grammar over lexeme types: the index after the value that
\* starts at index i of ts, or 0 when none does.
RECURSIVE ValueEnd(_, _), ElementsEnd(_, _), MembersEnd(_, _)
ValueEnd(ts, i) ==
    IF i > Len(ts) THEN 0
    ELSE CASE ts[i] \in {"String", "Scalar"} -> i + 1
           [] ts[i] = "[" ->
                 IF i + 1 <= Len(ts) /\ ts[i + 1] = "]" THEN i + 2
                 ELSE ElementsEnd(ts, i + 1)
           [] ts[i] = "{" ->
                 IF i + 1 <= Len(ts) /\ ts[i + 1] = "}" THEN i + 2
                 ELSE MembersEnd(ts, i + 1)
           [] OTHER -> 0

ElementsEnd(ts, i) ==
    LET e == ValueEnd(ts, i)
    IN  IF e = 0 \/ e > Len(ts) THEN 0
        ELSE IF ts[e] = "," THEN ElementsEnd(ts, e + 1)
        ELSE IF ts[e] = "]" THEN e + 1
        ELSE 0

MembersEnd(ts, i) ==
    IF i + 1 > Len(ts) \/ ts[i] # "String" \/ ts[i + 1] # ":" THEN 0
    ELSE LET e == ValueEnd(ts, i + 2)
         IN  IF e = 0 \/ e > Len(ts) THEN 0
             ELSE IF ts[e] = "," THEN MembersEnd(ts, e + 1)
             ELSE IF ts[e] = "}" THEN e + 1
             ELSE 0

\* The input is one JSON value, with whitespace and comments anywhere
\* between its lexemes.
ValidInput ==
    LET ts == LexemesFrom(0)
    IN  ValueEnd(ts, 1) = Len(ts) + 1

\* A token's source text: its payload with its delimiters restored.
SourceText(token) ==
    CASE token.type = "String" -> <<"\"">> \o token.text \o <<"\"">>
      [] token.type = "Number" -> token.text
      [] token.type = "CommentLine" -> <<"/", "/">> \o token.text
      [] token.type = "CommentBlock" ->
            <<"/", "*">> \o token.text \o <<"*", "/">>
      [] token.type = "Boolean" ->
            IF token.value THEN <<"t", "r", "u", "e">>
            ELSE <<"f", "a", "l", "s", "e">>
      [] token.type = "Null" -> <<"n", "u", "l", "l">>
      [] token.type = "OpenBrace" -> <<"{">>
      [] token.type = "CloseBrace" -> <<"}">>
      [] token.type = "OpenBracket" -> <<"[">>
      [] token.type = "CloseBracket" -> <<"]">>
      [] token.type = "Comma" -> <<",">>
      [] token.type = "Colon" -> <<":">>

\* The skipped whitespace and the source texts of the first k collected
\* tokens, in order.
RECURSIVE RebuiltTo(_)
RebuiltTo(k) ==
    IF k = 0 THEN <<>>
    ELSE RebuiltTo(k - 1)
            \o Slice(IF k = 1 THEN 0 ELSE scanned_ranges[k - 1].end,
                     scanned_ranges[k].start)
            \o SourceText(scanned_tokens[k])

\* The same, with the whitespace skipped by the last call of the loop.
Rebuilt ==
    LET n == Len(scanned_tokens)
    IN  RebuiltTo(n)
            \o Slice(IF n = 0 THEN 0 ELSE scanned_ranges[n].end, pos)

\* The caller's loop has just ended: the last call returned Ok(None) or Err
\* and the one before it a token (or there was none).
LoopEnded == Stopped /\ previous.kind \in {"Start", "Some"}

\* C12: for every valid JSON-with-comments input, repeating move_next
\* reaches Ok(None) without error, and the skipped whitespace and the
\* tokens' source texts, concatenated in order, are the input exactly.
C12_RoundTrip ==
    (ValidInput /\ LoopEnded) => (result.kind = "None" /\ Rebuilt = chars)

\* The round trip of the valid inputs that hold no string literal.
C12_RoundTripWithoutStrings ==
    (ValidInput /\ LoopEnded /\ \A k \in 1..Len(chars) : chars[k] # "\"")
        => (result.kind = "None" /\ Rebuilt = chars)

\* A valid input with whitespace and a comment, scanned to its end.
C12_WitnessWithoutStrings ==
    /\ ValidInput
    /\ LoopEnded
    /\ result.kind = "None"
    /\ Len(scanned_tokens) >= 2
    /\ CharAt(0) = " "
    /\ \E k \in 1..Len(chars) : chars[k] = "/"

\* A valid array, scanned to its end.
C12_WitnessArray ==
    /\ ValidInput
    /\ LoopEnded
    /\ result.kind = "None"
    /\ Len(scanned_tokens) = 4
    /\ scanned_tokens[1].type = "OpenBracket"

-----------------------------------------------------------------------------
(* C13 *)

\* C13: when the first character after the skipped whitespace is one of
\* { } [ ] , : move_next returns OpenBrace, CloseBrace, OpenBracket,
\* CloseBracket, Comma, Colon respectively, and pos is one past the token
\* start.
C13_StructuralTokens ==
    Returned =>
        \A c \in {"{", "}", "[", "]", ",", ":"} :
            CharAt(token_start) = c =>
                /\ result.kind = "Some"
                /\ SourceText(result.token) = <<c>>
                /\ result.token.text = <<>>
                /\ pos = token_start + 1

\* The four brackets in a row, each its own token.
C13_Witness ==
    /\ chars = <<"{", "}", "[", "]">>
    /\ ReturnedToken("CloseBracket")
    /\ Len(scanned_tokens) = 4
    /\ scanned_tokens[2].type = "CloseBrace"

\* A colon, and a brace after whitespace.
C13_WitnessColon == ReturnedToken("Colon") /\ pos = 4

C13_WitnessAfterWhitespace ==
    /\ ReturnedToken("OpenBrace")
    /\ token_start = 2
    /\ CharAt(0) = " "
    /\ CharAt(1) = "\n"

-----------------------------------------------------------------------------
(* C14 *)

\* The number of \n characters among the first n characters of the input.
RECURSIVE NewlinesBefore(_)
NewlinesBefore(n) ==
    IF n = 0 THEN 0
    ELSE NewlinesBefore(n - 1) + (IF chars[n] = "\n" THEN 1 ELSE 0)

\* C14: whenever move_next returns Ok(None), line_number is the number of
\* \n characters in the input, whichever rule moved the cursor over them.
C14_LineCount ==
    result.kind = "None" => line_number = NewlinesBefore(Len(chars))

\* C14 for a newline directly after a keyword: the caller's loop reaches
\* Ok(None) on the input true\n with every newline counted.
C14_LineCountAfterKeyword ==
    (chars = <<"t", "r", "u", "e", "\n">> /\ result.kind = "None")
        => line_number = 1

\* What the counter holds instead: the newlines the cursor has landed on
\* through move_next_char, which leaves out a newline at index 0 and a
\* newline directly after a keyword.
C14_LineCountAtMost ==
    line_number <= NewlinesBefore(IF pos <= Len(chars) THEN pos ELSE Len(chars))
                     + (IF CharAt(pos) = "\n" THEN 1 ELSE 0)

-----------------------------------------------------------------------------
(* C15 *)

\* The escape characters of the string grammar, other than u.
ValidEscapes == {"\"", "\\", "/", "b", "f", "n", "r", "t"}

\* Is the escaped character at position i the start of a well-formed escape?
EscapeOk(i) ==
    \/ CharAt(i) \in ValidEscapes
    \/ (CharAt(i) = "u" /\ \A k \in 1..4 : CharAt(i + k) \in HexChars)

\* In the string opened at s, position i holds an escaped character, and
\* everything before it is well formed and does not end the string.
ReachesEscape(s, i) ==
    /\ Escaped(s, i)
    /\ \A j \in (s + 1)..(i - 1) :
          /\ j \notin ClosingQuotes(s)
          /\ Escaped(s, j) => EscapeOk(j)

\* The strings the claims C15 and C16 are about: move_next has scanned a
\* string opened at token_start and reached an escaped character at i.
ScannedEscape(i) ==
    /\ Returned
    /\ CharAt(token_start) = "\""
    /\ ReachesEscape(token_start, i)

\* C15 as stated: a backslash-u not followed by four hex digits, also when
\* the input ends first, fails with "Expected four hex digits." and the
\* reported pos is the index of the u.
C15_HexErrorAtU ==
    \A i \in 1..(Len(chars) - 1) :
        (ScannedEscape(i) /\ CharAt(i) = "u" /\ ~EscapeOk(i)) =>
            /\ ReturnedError("Expected four hex digits.")
            /\ result.pos = i

\* C15 as amended: a backslash-u not followed by four hex digits, also when
\* the input ends first, fails with "Expected four hex digits." and the
\* reported pos is the index of the backslash, one before the u.
C15_HexErrorAtBackslash ==
    \A i \in 1..(Len(chars) - 1) :
        (ScannedEscape(i) /\ CharAt(i) = "u" /\ ~EscapeOk(i)) =>
            /\ ReturnedError("Expected four hex digits.")
            /\ result.pos = i - 1
            /\ CharAt(result.pos) = "\\"

\* Three hex digits and then a character that is not one.
C15_Witness ==
    /\ ReturnedError("Expected four hex digits.")
    /\ Slice(token_start, pos + 1) = <<"\"", "\\", "u", "0", "b", "0", "x">>
    /\ result.pos = token_start + 1

\* The input ends inside the four digits.
C15_WitnessEnd ==
    /\ ReturnedError("Expected four hex digits.")
    /\ pos = Len(chars)
    /\ CharAt(pos - 1) = "0"

-----------------------------------------------------------------------------
(* C16 *)

\* C16: in a string, a backslash followed by a character other than
\* " \ / b f n r t u fails with "Invalid escape." at the offset of the
\* opening quote; a backslash followed by one of " \ / b f n r t never
\* fails and never ends the string: "Invalid escape." is only ever reported
\* on an escaped character outside that list, and a String token ends on a
\* quote that is not escaped, with every escape before it well formed.
C16_InvalidEscape ==
    /\ \A i \in 1..(Len(chars) - 1) :
          (ScannedEscape(i) /\ CharAt(i) \notin ValidEscapes \cup {"u"}) =>
              /\ ReturnedError("Invalid escape.")
              /\ result.pos = token_start
              /\ CharAt(result.pos) = "\""
    /\ \A i \in 1..(Len(chars) - 1) :
          (ScannedEscape(i) /\ CharAt(i) \in ValidEscapes) =>
              /\ ~(result.kind = "Err" /\ pos = i)
              /\ ~(ReturnedToken("String") /\ pos = i)
    /\ ReturnedError("Invalid escape.") =>
          /\ Escaped(token_start, pos)
          /\ CharAt(pos) \notin ValidEscapes \cup {"u"}
    /\ ReturnedToken("String") =>
          /\ ~Escaped(token_start, pos)
          /\ \A i \in (token_start + 1)..(pos - 1) :
                Escaped(token_start, i) => EscapeOk(i)

\* An invalid escape in a string that does not start the input.
C16_Witness ==
    /\ ReturnedError("Invalid escape.")
    /\ token_start > 0
    /\ result.pos = token_start
    /\ CharAt(pos) = "x"

\* An escaped quote does not close the string, and the b after an escaped
\* backslash is not escaped.
C16_WitnessEscapedQuote ==
    /\ ReturnedToken("String")
    /\ result.token.text = <<"\\", "\"", "b">>

C16_WitnessEscapedBackslash ==
    /\ ReturnedToken("String")
    /\ result.token.text = <<"\\", "\\", "x">>

-----------------------------------------------------------------------------
(* C17 *)

\* '-'? int
IsSignedInt(t) ==
    IsInt(IF Len(t) >= 1 /\ t[1] = "-" THEN Tail(t) ELSE t)

\* C17: a - not followed by a digit fails with "Expected a digit to follow
\* a negative sign."; a decimal point after the integer part not followed
\* by a digit fails with "Expected a digit."; an exponent sign not followed
\* by a digit fails with "Expected a digit."; none is a Number token.
C17_MalformedNumbers ==
    Returned =>
        /\ (CharAt(token_start) = "-" /\ CharAt(token_start + 1) \notin Digits)
              => ReturnedError("Expected a digit to follow a negative sign.")
        /\ \A j \in (token_start + 1)..(Len(chars) - 1) :
              (/\ IsSignedInt(Slice(token_start, j))
               /\ CharAt(j) = "."
               /\ CharAt(j + 1) \notin Digits)
                  => ReturnedError("Expected a digit.")
        /\ \A j \in (token_start + 1)..(Len(chars) - 1) :
              (/\ IsIntFrac(Slice(token_start, j))
               /\ CharAt(j) \in {"e", "E"}
               /\ CharAt(j + 1) \in {"+", "-"}
               /\ CharAt(j + 2) \notin Digits)
                  => ReturnedError("Expected a digit.")

\* An exponent sign followed by a character that is not a digit.
C17_Witness ==
    /\ ReturnedError("Expected a digit.")
    /\ CharAt(pos - 1) \in {"+", "-"}
    /\ CharAt(pos - 2) \in {"e", "E"}
    /\ CharAt(pos) = "x"

\* A decimal point at the end of the input.
C17_WitnessPoint ==
    /\ ReturnedError("Expected a digit.")
    /\ CharAt(pos - 1) = "."
    /\ pos = Len(chars)

\* A minus sign followed by a decimal point.
C17_WitnessSign ==
    /\ ReturnedError("Expected a digit to follow a negative sign.")
    /\ CharAt(pos) = "."

-----------------------------------------------------------------------------
(* C18 *)

\* The character at position p starts no structural token, literal,
\* comment or whole keyword.
StartsNothing(p) ==
    \/ (CharAt(p) = "/" /\ CharAt(p + 1) \notin {"/", "*"})
    \/ /\ CharAt(p) \notin {"{", "}", "[", "]", ",", ":", "\"", "/", "-"}
                              \cup Digits
       /\ \A w \in Keywords :
             \/ Slice(p, p + Len(w)) # w
             \/ CharAt(p + Len(w)) \in Letters \cup Digits

\* C18: when move_next returns "Unexpected token.", nothing of the
\* offending text is consumed: pos = token_start = the error's pos, on a
\* character that starts no token; and a repeated call returns the same
\* error and leaves the scanner as it is, so that Ok(None) is never reached
\* after it.
C18_UnexpectedTokenNotConsumed ==
    /\ [](ReturnedError("Unexpected token.") =>
            /\ pos = token_start
            /\ result.pos = token_start
            /\ pos < Len(chars)
            /\ StartsNothing(pos))
    /\ [][ReturnedError("Unexpected token.") =>
            /\ result' = result
            /\ pos' = pos
            /\ token_start' = token_start
            /\ line_number' = line_number]_vars

\* "Unexpected token." returned twice in a row for a slash, after a token
\* and whitespace.
C18_Witness ==
    /\ ReturnedError("Unexpected token.")
    /\ previous = result
    /\ CharAt(pos) = "/"
    /\ Len(scanned_tokens) >= 1
    /\ pos >= 2

\* The same for a keyword with a letter after it.
C18_WitnessWord ==
    /\ ReturnedError("Unexpected token.")
    /\ previous = result
    /\ CharAt(pos) = "t"

-----------------------------------------------------------------------------
(* C19 *)

\* C19: in every reachable state, also one left behind by an error,
\* 0 <= token_start <= pos <= len(chars), and an error's pos lies in
\* 0 .. len(chars).
C19_CursorInBounds ==
    /\ 0 <= token_start
    /\ token_start <= pos
    /\ pos <= Len(chars)
    /\ result.kind = "Err" => (0 <= result.pos /\ result.pos <= Len(chars))

\* The input ends right after a backslash-u: the four-digit loop stops one
\* past the last character.
C19_Witness ==
    /\ ReturnedError("Expected four hex digits.")
    /\ pos = Len(chars)
    /\ CharAt(pos - 1) = "u"

\* The exponent scan stops at the end of the input and reports that offset.
C19_WitnessExponent ==
    /\ result.kind = "Err"
    /\ result.pos = Len(chars)
    /\ CharAt(pos - 1) \in {"+", "-"}

\* A block comment closed by the last two characters of the input.
C19_WitnessBlock ==
    /\ ReturnedToken("CommentBlock")
    /\ pos = Len(chars)

====
